---------------------------- MODULE Spec2Model ----------------------------
(* The Item store of src/main.py: the module-level list items_db and the   *)
(* FastAPI handlers that read and write it.                                 *)
(*                                                                          *)
(* Optional[...] values are tuples: <<>> is None, <<v>> is the value v.     *)
(* Prices are written in hundredths (999.99 is 99999); no handler does      *)
(* arithmetic on a price.  A text is a sequence of fragments.               *)
EXTENDS Integers, Sequences, FiniteSets, TLC

VARIABLES
    items_db,   \* main.py:25  the in-memory list of Item
    request,    \* Spec: the request handled last
    response,   \* Spec: the answer it got
    tasks,      \* ConcSpec: one coroutine per request received, by arrival
    running,    \* ConcSpec: the coroutine the event loop is running, 0 if none
    order       \* ConcSpec: the requests in the order their handlers started

vars == <<items_db, request, response, tasks, running, order>>

(* ------------------------------ bounds -------------------------------- *)
MaxItems == 4
MaxId == 4
MaxRequests == 3

(* ---------------------------- data model ------------------------------ *)
None == <<>>

Some(v) == <<v>>

\* Before any request is handled.
NoRequest == [op |-> "none"]

NoResponse == [status_code |-> 0]

\* HTTPException(status_code=404, detail="Item non trouvé")
NotFound ==
    [status_code |-> 404, content_type |-> <<"application/json">>,
     body |-> [detail |-> "Item non trouvé"]]

\* What the framework answers when a handler raises anything else.
ServerError ==
    [status_code |-> 500, content_type |-> <<"text/plain", "; charset=utf-8">>,
     body |-> <<"Internal Server Error">>]

\* A handler's return value, sent the way the route declares: no
\* response_class is given, so as JSON.
Json(status, content) ==
    [status_code |-> status, content_type |-> <<"application/json">>,
     body |-> content]

\* class Item(BaseModel): a request body validated into an Item; the fields
\* the body omits (None here) take the class's defaults.
Item(payload) ==
    [id          |-> payload.id,
     name        |-> payload.name,
     description |-> payload.description,
     price       |-> payload.price,
     in_stock    |-> IF payload.in_stock = None THEN TRUE
                     ELSE payload.in_stock[1]]

\* The three records the list starts with.
SeedItems ==
    << [id |-> Some(1), name |-> "Laptop",
        description |-> Some("Un ordinateur portable"),
        price |-> 99999, in_stock |-> TRUE],
       [id |-> Some(2), name |-> "Mouse",
        description |-> Some("Une souris sans fil"),
        price |-> 2999, in_stock |-> TRUE],
       [id |-> Some(3), name |-> "Keyboard",
        description |-> Some("Un clavier mécanique"),
        price |-> 14999, in_stock |-> FALSE] >>

\* Python truthiness of an Optional[int]: None and 0 are false.
Truthy(id) == id # None /\ id[1] # 0

RECURSIVE MaxOf(_)
MaxOf(S) ==
    LET x == CHOOSE y \in S : TRUE
    IN  IF S = {x} THEN x
        ELSE LET m == MaxOf(S \ {x}) IN IF x > m THEN x ELSE m

\* The text of the body root() returns, as sent.
RootText(body) ==
    <<"{", "\"message\":\"">> \o body.message
        \o <<"\",", "\"docs\":\"">> \o body.docs
        \o <<"\",", "\"health\":\"">> \o body.health \o <<"\"}">>

(* ------------------------- the handlers, whole ------------------------ *)
\* Each handler as a function of the list it finds: the list it leaves and
\* the response it gives.

\* async def root()
root(db) ==
    [db |-> db,
     reply |-> Json(200,
        [message |-> <<"Bienvenue sur l'API d'exemple!", " v5.7">>,
         docs    |-> <<"/docs">>,
         health  |-> <<"/health">>])]

\* async def health_check()
health_check(db) ==
    [db |-> db,
     reply |-> Json(200, [status |-> "healthy", version |-> "1.0.0"])]

\* Variant: the comprehension tests item.in_stock alone.
RECURSIVE FilterTruthy(_, _)
FilterTruthy(db, b) ==
    IF db = <<>> THEN <<>>
    ELSE IF Head(db).in_stock
         THEN <<Head(db)>> \o FilterTruthy(Tail(db), b)
         ELSE FilterTruthy(Tail(db), b)

\* [item for item in items_db if item.in_stock == in_stock]
RECURSIVE Filter(_, _)
Filter(db, b) ==
    IF db = <<>> THEN <<>>
    ELSE IF Head(db).in_stock = b
         THEN <<Head(db)>> \o Filter(Tail(db), b)
         ELSE Filter(Tail(db), b)

\* async def get_items(in_stock: Optional[bool] = None)
get_items(db, in_stock) ==
    [db |-> db,
     reply |-> Json(200, IF in_stock = None THEN db
                            ELSE Filter(db, in_stock[1]))]

\* for idx, item in enumerate(items_db): if item.id == item_id: ...
\* The index of the first item carrying item_id from position idx on,
\* 0 when the loop runs off the end.
RECURSIVE FindFrom(_, _, _)
FindFrom(db, item_id, idx) ==
    IF idx > Len(db) THEN 0
    ELSE IF db[idx].id = Some(item_id) THEN idx
         ELSE FindFrom(db, item_id, idx + 1)

\* Variant: the loop variable is used after a loop that matched nothing.
FindOrLast(db, item_id) ==
    IF FindFrom(db, item_id, 1) = 0 THEN Len(db) ELSE FindFrom(db, item_id, 1)

Find(db, item_id) == FindFrom(db, item_id, 1)

\* Variant: item_id is taken for the item's place in the list.
get_item_by_position(db, item_id) ==
    [db |-> db,
     reply |-> IF item_id \in 1..Len(db) THEN Json(200, db[item_id])
                  ELSE NotFound]

\* async def get_item(item_id: int)
get_item(db, item_id) ==
    LET idx == Find(db, item_id)
    IN  [db |-> db,
         reply |-> IF idx = 0 THEN NotFound ELSE Json(200, db[idx])]

\* Variant: the next id is the number of items plus one.
NewIdByCount(db) == Some(Len(db) + 1)

\* Variant: the next id is the lowest positive id no item carries.
NewIdLowestFree(db) ==
    LET used == {db[i].id : i \in 1..Len(db)}
    IN  Some(CHOOSE n \in 1..(Len(db) + 1) :
                /\ Some(n) \notin used
                /\ \A m \in 1..(n - 1) : Some(m) \in used)

\* new_id = max([i.id for i in items_db if i.id]) + 1 if items_db else 1
\* None stands for the ValueError max() raises on an empty list.
NewId(db) ==
    LET ids == {db[i].id[1] : i \in {j \in 1..Len(db) : Truthy(db[j].id)}}
    IN  IF db = <<>> THEN Some(1)
        ELSE IF ids = {} THEN None
             ELSE Some(MaxOf(ids) + 1)

\* async def create_item(item: Item)
create_item(db, item) ==
    LET new_id == NewId(db)
        stored == [item EXCEPT !.id = new_id]
    IN  IF new_id = None
        THEN [db |-> db, reply |-> ServerError]
        ELSE [db |-> Append(db, stored), reply |-> Json(201, stored)]

\* Variant: the body's id is stored as sent.
update_item_keeps_body_id(db, item_id, updated_item) ==
    LET idx == Find(db, item_id)
    IN  IF idx = 0
        THEN [db |-> db, reply |-> NotFound]
        ELSE [db |-> [db EXCEPT ![idx] = updated_item],
              reply |-> Json(200, updated_item)]

\* Variant: the old item is removed and the new one appended.
update_item_moves_to_end(db, item_id, updated_item) ==
    LET idx == Find(db, item_id)
        stored == [updated_item EXCEPT !.id = Some(item_id)]
    IN  IF idx = 0
        THEN [db |-> db, reply |-> NotFound]
        ELSE [db |-> Append(SubSeq(db, 1, idx - 1)
                              \o SubSeq(db, idx + 1, Len(db)), stored),
              reply |-> Json(200, stored)]

\* async def update_item(item_id: int, updated_item: Item)
update_item(db, item_id, updated_item) ==
    LET idx == Find(db, item_id)
        stored == [updated_item EXCEPT !.id = Some(item_id)]
    IN  IF idx = 0
        THEN [db |-> db, reply |-> NotFound]
        ELSE [db |-> [db EXCEPT ![idx] = stored],
              reply |-> Json(200, stored)]

\* Variant: items_db.pop() with no index.
PopLast(db, idx) == SubSeq(db, 1, Len(db) - 1)

\* items_db.pop(idx)
Pop(db, idx) == SubSeq(db, 1, idx - 1) \o SubSeq(db, idx + 1, Len(db))

\* {"message": f"Item {item_id} supprimé avec succès"}
Deleted(item_id) ==
    Json(200, [message |-> <<"Item ", item_id, " supprimé avec succès">>])

\* async def delete_item(item_id: int)
delete_item(db, item_id) ==
    LET idx == Find(db, item_id)
    IN  IF idx = 0
        THEN [db |-> db, reply |-> NotFound]
        ELSE [db |-> Pop(db, idx), reply |-> Deleted(item_id)]

(* ------------------------------ inputs -------------------------------- *)
\* Request bodies that pass validation (name and price present).
Bodies ==
    { [id |-> None, name |-> "Monitor", description |-> Some("Un écran 4K"),
       price |-> 39999, in_stock |-> Some(TRUE)],
      [id |-> None, name |-> "Webcam", description |-> None,
       price |-> 7999, in_stock |-> None],
      [id |-> Some(1), name |-> "Ghost Item", description |-> None,
       price |-> 9999, in_stock |-> Some(FALSE)] }

PathIds == (0..MaxId) \cup {999}

Filters == {None, Some(TRUE), Some(FALSE)}

(* --------------------- Spec: one request at a time -------------------- *)
Init ==
    /\ items_db = SeedItems
    /\ request = NoRequest
    /\ response = NoResponse
    /\ tasks = <<>>
    /\ running = 0
    /\ order = <<>>

\* GET /
Root ==
    LET r == root(items_db)
    IN  /\ request' = [op |-> "root"]
        /\ response' = r.reply
        /\ items_db' = r.db
        /\ UNCHANGED <<tasks, running, order>>

\* GET /health
Health ==
    LET r == health_check(items_db)
    IN  /\ request' = [op |-> "health"]
        /\ response' = r.reply
        /\ items_db' = r.db
        /\ UNCHANGED <<tasks, running, order>>

\* GET /items?in_stock=
List ==
    \E f \in Filters :
        LET r == get_items(items_db, f)
        IN  /\ request' = [op |-> "list", in_stock |-> f]
            /\ response' = r.reply
            /\ items_db' = r.db
            /\ UNCHANGED <<tasks, running, order>>

\* GET /items/{item_id}
Get ==
    \E i \in PathIds :
        LET r == get_item(items_db, i)
        IN  /\ request' = [op |-> "get", item_id |-> i]
            /\ response' = r.reply
            /\ items_db' = r.db
            /\ UNCHANGED <<tasks, running, order>>

\* POST /items, while the list and the next id are within the bounds.
Create ==
    /\ Len(items_db) < MaxItems
    /\ NewId(items_db) = None \/ NewId(items_db)[1] <= MaxId
    /\ \E b \in Bodies :
        LET r == create_item(items_db, Item(b))
        IN  /\ request' = [op |-> "create", body |-> b]
            /\ response' = r.reply
            /\ items_db' = r.db
            /\ UNCHANGED <<tasks, running, order>>

\* PUT /items/{item_id}
Update ==
    \E i \in PathIds, b \in Bodies :
        LET r == update_item(items_db, i, Item(b))
        IN  /\ request' = [op |-> "update", body |-> b, item_id |-> i]
            /\ response' = r.reply
            /\ items_db' = r.db
            /\ UNCHANGED <<tasks, running, order>>

\* DELETE /items/{item_id}
Delete ==
    \E i \in PathIds :
        LET r == delete_item(items_db, i)
        IN  /\ request' = [op |-> "delete", item_id |-> i]
            /\ response' = r.reply
            /\ items_db' = r.db
            /\ UNCHANGED <<tasks, running, order>>

Next == Root \/ Health \/ List \/ Get \/ Create \/ Update \/ Delete

Spec == Init /\ [][Next]_vars

(* ------------- ConcSpec: several requests in flight at once ----------- *)
\* Every handler is an `async def` run by one event loop: a coroutine keeps
\* the loop from the statement it is resumed at until it suspends or
\* returns.  A task's pc names the source line it executes next.

\* Variant: create_item awaits between computing new_id and using it.
SuspendsAfterRead(pc) == pc = "l64"

\* Whether the statement at pc hands the loop back (an await that suspends).
\* No handler body holds one.
Suspends(pc) == FALSE

\* The first line of each handler's body.
Entry(op) ==
    CASE op = "list"   -> "l48"
      [] op = "get"    -> "l55"
      [] op = "create" -> "l64"
      [] op = "update" -> "l72"
      [] op = "delete" -> "l82"

\* A request received and not yet started: its parameters are bound (the
\* body validated into an Item), its locals unset.
NewTask(req, inflight) ==
    [response |-> NoResponse,
     idx      |-> 0,
     item     |-> IF req.op \in {"create", "update"}
                  THEN Some(Item(req.body)) ELSE None,
     new_id   |-> None,
     pc       |-> "pending",
     req      |-> req,
     cur      |-> None,
     seen     |-> inflight]

Return(t, resp) == [t EXCEPT !.pc = "done", !.response = resp]

\* for idx, item in enumerate(items_db): the list iterator fetches the next
\* element, or ends the loop when the index has run past the list.
LoopFetch(t, db, body, after) ==
    IF t.idx + 1 > Len(db)
    THEN [t EXCEPT !.pc = after]
    ELSE [t EXCEPT !.idx = t.idx + 1, !.cur = Some(db[t.idx + 1]), !.pc = body]

\* if item.id == item_id:
LoopTest(t, loop, found) ==
    IF t.cur[1].id = Some(t.req.item_id)
    THEN [t EXCEPT !.pc = found]
    ELSE [t EXCEPT !.pc = loop]

\* One statement of task t on the list db: the task and the list after it.
Exec(t, db) ==
    CASE t.pc = "l48" ->   \* get_items
            [t |-> [t EXCEPT !.pc = IF t.req.in_stock = None
                                     THEN "l49" ELSE "l50"],
             items |-> db]
      [] t.pc = "l49" -> [t |-> Return(t, Json(200, db)), items |-> db]
      [] t.pc = "l50" ->
            [t |-> Return(t, Json(200, Filter(db, t.req.in_stock[1]))),
             items |-> db]
      \* get_item
      [] t.pc = "l55" -> [t |-> LoopFetch(t, db, "l56", "l58"), items |-> db]
      [] t.pc = "l56" -> [t |-> LoopTest(t, "l55", "l57"), items |-> db]
      [] t.pc = "l57" -> [t |-> Return(t, Json(200, t.cur[1])), items |-> db]
      [] t.pc = "l58" -> [t |-> Return(t, NotFound), items |-> db]
      \* create_item
      [] t.pc = "l64" ->
            [t |-> IF NewId(db) = None THEN Return(t, ServerError)
                   ELSE [t EXCEPT !.new_id = NewId(db), !.pc = "l65"],
             items |-> db]
      [] t.pc = "l65" ->
            [t |-> [t EXCEPT !.item = Some([t.item[1] EXCEPT !.id = t.new_id]),
                             !.pc = "l66"],
             items |-> db]
      [] t.pc = "l66" ->
            [t |-> [t EXCEPT !.pc = "l67"], items |-> Append(db, t.item[1])]
      [] t.pc = "l67" -> [t |-> Return(t, Json(201, t.item[1])), items |-> db]
      \* update_item
      [] t.pc = "l72" -> [t |-> LoopFetch(t, db, "l73", "l77"), items |-> db]
      [] t.pc = "l73" -> [t |-> LoopTest(t, "l72", "l74"), items |-> db]
      [] t.pc = "l74" ->
            [t |-> [t EXCEPT
                      !.item = Some([t.item[1] EXCEPT !.id = Some(t.req.item_id)]),
                      !.pc = "l75"],
             items |-> db]
      [] t.pc = "l75" ->
            IF t.idx > Len(db)   \* IndexError
            THEN [t |-> Return(t, ServerError), items |-> db]
            ELSE [t |-> [t EXCEPT !.pc = "l76"],
                  items |-> [db EXCEPT ![t.idx] = t.item[1]]]
      [] t.pc = "l76" -> [t |-> Return(t, Json(200, t.item[1])), items |-> db]
      [] t.pc = "l77" -> [t |-> Return(t, NotFound), items |-> db]
      \* delete_item
      [] t.pc = "l82" -> [t |-> LoopFetch(t, db, "l83", "l86"), items |-> db]
      [] t.pc = "l83" -> [t |-> LoopTest(t, "l82", "l84"), items |-> db]
      [] t.pc = "l84" ->
            IF t.idx > Len(db)   \* IndexError
            THEN [t |-> Return(t, ServerError), items |-> db]
            ELSE [t |-> [t EXCEPT !.pc = "l85"], items |-> Pop(db, t.idx)]
      [] t.pc = "l85" -> [t |-> Return(t, Deleted(t.req.item_id)), items |-> db]
      [] t.pc = "l86" -> [t |-> Return(t, NotFound), items |-> db]

\* The requests clients send in ConcSpec: the five operations on the list.
ConcRequests ==
    {[op |-> "create", body |-> b] : b \in {x \in Bodies : x.name = "Ghost Item"}}
    \cup {[op |-> "update", body |-> b, item_id |-> 4] :
            b \in {x \in Bodies : x.name = "Webcam"}}
    \cup {[op |-> "delete", item_id |-> 4], [op |-> "get", item_id |-> 4]}
    \cup {[op |-> "list", in_stock |-> f] : f \in {None, Some(TRUE)}}

InFlight == {r \in 1..Len(tasks) : tasks[r].pc # "done"}

\* The loop, idle, accepts a request: a task is created for it.
Receive ==
    /\ running = 0
    /\ Len(tasks) < MaxRequests
    /\ \E req \in ConcRequests : tasks' = Append(tasks, NewTask(req, InFlight))
    /\ UNCHANGED <<items_db, request, response, running, order>>

\* The loop, idle, runs a task that is ready: a new one enters its handler,
\* a suspended one goes on where it stopped.
Resume ==
    /\ running = 0
    /\ \E r \in InFlight :
        /\ running' = r
        /\ IF tasks[r].pc = "pending"
           THEN /\ tasks' = [tasks EXCEPT ![r].pc = Entry(tasks[r].req.op)]
                /\ order' = Append(order, r)
           ELSE UNCHANGED <<tasks, order>>
    /\ UNCHANGED <<items_db, request, response>>

\* The running task executes its next statement.
Step ==
    /\ running # 0
    /\ LET t == tasks[running]
           e == Exec(t, items_db)
       IN  /\ tasks' = [tasks EXCEPT ![running] = e.t]
           /\ items_db' = e.items
           /\ running' = IF e.t.pc = "done" \/ Suspends(t.pc) THEN 0 ELSE running
    /\ UNCHANGED <<request, response, order>>

ConcNext == Receive \/ Resume \/ Step

ConcSpec == Init /\ [][ConcNext]_vars

\* The result of running a request's handler, whole, on a list.
Handle(db, req) ==
    CASE req.op = "root"   -> root(db)
      [] req.op = "health" -> health_check(db)
      [] req.op = "list"   -> get_items(db, req.in_stock)
      [] req.op = "get"    -> get_item(db, req.item_id)
      [] req.op = "create" -> create_item(db, Item(req.body))
      [] req.op = "update" -> update_item(db, req.item_id, Item(req.body))
      [] req.op = "delete" -> delete_item(db, req.item_id)

\* The requests of ord handled one at a time, in that order, from db.
RECURSIVE SerialRun(_, _)
SerialRun(db, ord) ==
    IF ord = <<>> THEN [db |-> db, replies |-> <<>>]
    ELSE LET r == Handle(db, tasks[Head(ord)].req)
             rest == SerialRun(r.db, Tail(ord))
         IN  [db |-> rest.db, replies |-> <<r.reply>> \o rest.replies]


(* ------------------------------ claims -------------------------------- *)
\* Places in db of the items carrying item_id.
PlacesOf(db, item_id) == {i \in 1..Len(db) : db[i].id = Some(item_id)}

Absent(db, item_id) == PlacesOf(db, item_id) = {}

IsNotFound(r) ==
    r.status_code = 404 /\ r.body = [detail |-> "Item non trouvé"]

\* text holds the fragments of part, in a row.
Contains(text, part) ==
    \E i \in 0..(Len(text) - Len(part)) :
        SubSeq(text, i + 1, i + Len(part)) = part

\* C1: in every reachable state every stored item has a non-null id and no
\* two stored items have the same id.
IdsUnique ==
    /\ \A i \in 1..Len(items_db) : items_db[i].id # None
    /\ \A i, j \in 1..Len(items_db) :
          i # j => items_db[i].id # items_db[j].id

\* An update whose body carried another id has been stored in a list that
\* also holds a created item.
IdsUniqueWitness ==
    /\ request.op = "update"
    /\ response.status_code = 200
    /\ request.body.id # None
    /\ request.body.id # Some(request.item_id)
    /\ Len(items_db) = 4

\* C2: Create never raises; the returned id is the highest stored id plus 1,
\* or 1 on an empty list, whatever id the body carried; the item is appended
\* and the items already stored are unchanged, in order.
CreateAssignsNextId ==
    [][request'.op = "create" =>
        LET ids == {items_db[i].id[1] : i \in 1..Len(items_db)}
            next == IF items_db = <<>> THEN 1
                    ELSE (CHOOSE m \in ids : \A n \in ids : n <= m) + 1
            b == request'.body
        IN  /\ response'.status_code = 201
            /\ response'.body =
                 [id |-> Some(next), name |-> b.name,
                  description |-> b.description, price |-> b.price,
                  in_stock |-> (b.in_stock # Some(FALSE))]
            /\ Len(items_db') = Len(items_db) + 1
            /\ items_db'[Len(items_db')] = response'.body
            /\ \A i \in 1..Len(items_db) : items_db'[i] = items_db[i]
    ]_vars

\* A body carrying id 1 was created on a list whose highest id is not its
\* length, and was given id 4.
CreateAssignsNextIdWitness ==
    /\ request.op = "create"
    /\ request.body.id = Some(1)
    /\ response.status_code = 201
    /\ response.body.id = Some(4)
    /\ Len(items_db) = 2

\* C3: for an id no stored item carries, Get, Update and Delete answer 404
\* with detail "Item non trouvé" and leave the list as it was.
AbsentIdNotFound ==
    [][(/\ request'.op \in {"get", "update", "delete"}
        /\ Absent(items_db, request'.item_id))
       => (IsNotFound(response') /\ items_db' = items_db)
    ]_vars

AbsentIdNotFoundWitness ==
    /\ request.op = "update"
    /\ request.item_id = 999
    /\ IsNotFound(response)
    /\ items_db = SeedItems

\* C4: Update of a stored id replaces the item in place: same length, the
\* body's fields with the path id at the same place (the body's id ignored,
\* an omitted in_stock true), every other item as it was.
UpdateReplacesInPlace ==
    [][(request'.op = "update" /\ ~Absent(items_db, request'.item_id)) =>
        LET idx == CHOOSE i \in PlacesOf(items_db, request'.item_id) : TRUE
            b == request'.body
            new == [id |-> Some(request'.item_id), name |-> b.name,
                    description |-> b.description, price |-> b.price,
                    in_stock |-> (b.in_stock # Some(FALSE))]
        IN  /\ response'.status_code = 200
            /\ response'.body = new
            /\ Len(items_db') = Len(items_db)
            /\ items_db'[idx] = new
            /\ (b.in_stock = None => items_db'[idx].in_stock)
            /\ \A i \in 1..Len(items_db) : i # idx => items_db'[i] = items_db[i]
    ]_vars

\* The item with id 3, inside the list, was replaced by a body that omits
\* in_stock and is stored in stock.
UpdateReplacesInPlaceWitness ==
    /\ request = [op |-> "update",
                  body |-> [id |-> None, name |-> "Webcam",
                            description |-> None, price |-> 7999,
                            in_stock |-> None],
                  item_id |-> 3]
    /\ response.status_code = 200
    /\ Len(items_db) = 4
    /\ items_db[3].name = "Webcam" /\ items_db[3].in_stock

\* C5: Delete of a stored id succeeds and removes exactly that item, the
\* others keeping their values and order; from then on, as long as no Create
\* runs, the id stays absent and Get of it answers 404.
DeleteRemovesItem ==
    [][/\ (request'.op = "delete" /\ ~Absent(items_db, request'.item_id)) =>
            LET idx == CHOOSE i \in PlacesOf(items_db, request'.item_id) : TRUE
            IN  /\ response'.status_code = 200
                /\ Len(items_db') = Len(items_db) - 1
                /\ \A i \in 1..(idx - 1) : items_db'[i] = items_db[i]
                /\ \A i \in idx..Len(items_db') : items_db'[i] = items_db[i + 1]
                /\ Absent(items_db', request'.item_id)
       /\ \A id \in PathIds :
            (Absent(items_db, id) /\ request'.op # "create") =>
                /\ Absent(items_db', id)
                /\ (request'.op = "get" /\ request'.item_id = id)
                      => IsNotFound(response')
    ]_vars

\* Get(2) answers 404: the seed item 2 has been deleted from the middle.
DeleteRemovesItemWitness ==
    /\ request = [op |-> "get", item_id |-> 2]
    /\ IsNotFound(response)
    /\ Len(items_db) = 3
    /\ items_db[2].id = Some(3)

\* C6: List never fails and never changes the list; with a filter it
\* returns exactly the items whose in_stock equals it, in list order, and
\* without one the whole list, so the answer depends on the list and the
\* filter alone.
ListFilters ==
    [][request'.op = "list" =>
        LET f == request'.in_stock
            sel == {i \in 1..Len(items_db) :
                        f = None \/ items_db[i].in_stock = f[1]}
            nth(k) == CHOOSE i \in sel :
                        Cardinality({j \in sel : j <= i}) = k
            out == response'.body
        IN  /\ response'.status_code = 200
            /\ items_db' = items_db
            /\ Len(out) = Cardinality(sel)
            /\ \A k \in 1..Len(out) : out[k] = items_db[nth(k)]
            /\ (request = request' => response' = response)
    ]_vars

\* List(in_stock=false) returned two of four items, the first not stored
\* first.
ListFiltersWitness ==
    /\ request = [op |-> "list", in_stock |-> Some(FALSE)]
    /\ Len(items_db) = 4
    /\ Len(response.body) = 2
    /\ items_db[1].in_stock
    /\ response.body[2] = items_db[4]

\* C7: Get of the id a Create has just returned succeeds and yields the
\* item Create returned.
CreateThenGet ==
    [][(/\ request.op = "create"
        /\ response.status_code = 201
        /\ request'.op = "get"
        /\ Some(request'.item_id) = response.body.id)
       => (/\ response'.status_code = 200
           /\ response'.body = response.body
           /\ response'.body.name = request.body.name
           /\ response'.body.price = request.body.price)
    ]_vars

\* Get returned a created item whose id is neither the body's nor its place.
CreateThenGetWitness ==
    /\ request = [op |-> "get", item_id |-> 4]
    /\ response.status_code = 200
    /\ response.body.name = "Ghost Item"
    /\ Len(items_db) = 2

\* C8: GET / answers 200 with a content type containing "text/html" and a
\* body containing "background-color: blue;" and the heading
\* "<h1>Bienvenue sur l'API d'exemple!</h1>".
RootIsHtml ==
    request.op = "root" =>
        /\ response.status_code = 200
        /\ Contains(response.content_type, <<"text/html">>)
        /\ Contains(RootText(response.body), <<"background-color: blue;">>)
        /\ Contains(RootText(response.body),
                    <<"<h1>", "Bienvenue sur l'API d'exemple!", "</h1>">>)

\* C9: the id Create returns is above every stored id, so an id is never
\* handed out again while it or a higher one is stored; and a Create that
\* directly follows the Delete of the highest id k, the highest remaining
\* id being k-1 (or the list empty and k = 1), returns k again.
IdReuse ==
    [][(request'.op = "create" /\ response'.status_code = 201) =>
        LET ids == {items_db[i].id[1] : i \in 1..Len(items_db)}
            k == request.item_id
        IN  /\ \A n \in ids : n < response'.body.id[1]
            /\ (/\ request.op = "delete"
                /\ response.status_code = 200
                /\ \A n \in ids : n < k
                /\ IF ids = {} THEN k = 1 ELSE k - 1 \in ids)
               => response'.body.id = Some(k)
    ]_vars

\* Id 3, which the seed item Keyboard carried, was handed to a created item.
IdReuseWitness ==
    /\ request.op = "create"
    /\ response.status_code = 201
    /\ response.body.id = Some(3)
    /\ response.body.name # "Keyboard"

\* No task but the running one is inside a handler.
Atomic ==
    \A r \in 1..Len(tasks) :
        tasks[r].pc \notin {"pending", "done"} => running = r

\* When the loop is idle, the list and every answer given are those of the
\* requests handled whole, one at a time, in the order their handlers began.
Serializable ==
    running = 0 =>
        LET s == SerialRun(SeedItems, order)
        IN  /\ items_db = s.db
            /\ \A i \in 1..Len(order) :
                  tasks[order[i]].response = s.replies[i]

IsCreated(r) ==
    tasks[r].req.op = "create" /\ tasks[r].pc = "done"
        /\ tasks[r].response.status_code = 201

\* Two Create requests in flight at once are never given the same id.
CreatesDistinct ==
    \A r1, r2 \in 1..Len(tasks) :
        (r1 \in tasks[r2].seen /\ IsCreated(r1) /\ IsCreated(r2))
            => tasks[r1].response.body.id # tasks[r2].response.body.id

\* Two Create requests are given the same id only when a Delete of that id
\* ran between them.
CreatesDistinctUnlessDeleted ==
    \A i, j \in 1..Len(order) :
        (/\ i < j
         /\ IsCreated(order[i]) /\ IsCreated(order[j])
         /\ tasks[order[i]].response.body.id = tasks[order[j]].response.body.id)
        => \E k \in (i + 1)..(j - 1) :
              /\ tasks[order[k]].req.op = "delete"
              /\ tasks[order[k]].response.status_code = 200
              /\ Some(tasks[order[k]].req.item_id)
                    = tasks[order[i]].response.body.id

\* C10 as stated: handlers are indivisible, every outcome is that of a
\* serial order, and two concurrent Creates never receive the same id.
ConcurrentCreatesNeverShareId == Atomic /\ Serializable /\ CreatesDistinct

\* C10 as amended: handlers are indivisible, every outcome is that of a
\* serial order, and two Creates receive the same id only when a Delete of
\* that id ran between them.
ConcurrentRequestsSerial ==
    Atomic /\ Serializable /\ CreatesDistinctUnlessDeleted

\* Two Create requests were in flight at once, with nothing else, and both
\* have been answered.
ConcurrentRequestsSerialWitness ==
    /\ Len(tasks) = 2
    /\ 1 \in tasks[2].seen
    /\ IsCreated(1) /\ IsCreated(2)
    /\ Len(items_db) = 5

=============================================================================
